---- MODULE Spec2Model ----
(***************************************************************************)
(* Model of the interactive force-directed graph view of Diptych           *)
(* (src/ui/graph_view.rs) together with the directory listing it uses      *)
(* (src/filesystem/ops.rs).                                                *)
(*                                                                         *)
(* Numbers.  The program computes with f64.  Lengths (world and screen     *)
(* coordinates, radii, velocities, forces) are modelled in fixed point     *)
(* with Q steps per unit, the zoom factor with ZQ steps per unit and       *)
(* direction cosines with RQ steps per unit.  Every division and square    *)
(* root rounds to the nearest step (Div, Sqrt), as f64 rounds to nearest.  *)
(*                                                                         *)
(* Options.  Rust's Option<T> is a sequence of length 0 (None) or 1 (Some).*)
(***************************************************************************)
EXTENDS Integers, Sequences, FiniteSets, TLC

VARIABLES
    state,        \* the GraphState shared by all callbacks (Rc<RefCell<GraphState>>)
    start_point,  \* GestureDrag's start point, read by gesture.start_point()
    ticks,        \* how often the 16 ms timer has fired
    gestures,     \* how many drag gestures have begun
    last          \* the callback that ran last: its arguments and its outward calls

vars == <<state, start_point, ticks, gestures, last>>

\* ---------------------------------------------------------------- bounds

\* Direct calls into the store issue ids up to MaxId, clicks up to MaxClickId,
\* so at most that many nodes ever exist.
MaxId == 6
MaxClickId == 4

\* ------------------------------------------------------------ fixed point

Q == 10
ZQ == 100
RQ == 1000

Abs(a) == IF a >= 0 THEN a ELSE -a
Max(a, b) == IF a >= b THEN a ELSE b
Min(a, b) == IF a <= b THEN a ELSE b

\* a / b for b > 0, rounded to the nearest step, halves away from zero.
Div(a, b) ==
    IF a >= 0 THEN (a + b \div 2) \div b ELSE -((-a + b \div 2) \div b)

RECURSIVE Newton(_, _)
Newton(n, x) ==
    LET y == (x + n \div x) \div 2
    IN  IF y >= x THEN x ELSE Newton(n, y)

\* The largest r with r * r <= n.
FloorSqrt(n) == IF n < 2 THEN n ELSE Newton(n, Min(n, 46340))

\* The square root of n, rounded to the nearest integer.
Sqrt(n) ==
    LET r == FloorSqrt(n)
    IN  IF n - r * r > r THEN r + 1 ELSE r

\* (a * a + b * b).sqrt() on lengths: operands beyond HypotExact are scaled down
\* before squaring, so precision is relative as it is for f64.
HypotExact == 30000
Hypot(a, b) ==
    LET m == Max(Abs(a), Abs(b))
        k == m \div HypotExact + 1
    IN  IF m <= HypotExact THEN Sqrt(a * a + b * b)
        ELSE k * Sqrt(Div(a, k) * Div(a, k) + Div(b, k) * Div(b, k))

None == <<>>
Some(x) == <<x>>

\* ------------------------------------------------------------- sequences

RECURSIVE SeqFilterReversed(_, _)
\* A buggy variant of SeqFilter: the elements kept come out last first.
SeqFilterReversed(s, keep) ==
    IF s = <<>> THEN <<>>
    ELSE LET n == Len(s)
             front == SeqFilterReversed(SubSeq(s, 1, n - 1), keep)
         IN  IF n \in keep THEN <<s[n]>> \o front ELSE front

RECURSIVE SeqFilter(_, _)
\* The elements of sequence s whose index is in keep, in order.
SeqFilter(s, keep) ==
    IF s = <<>> THEN <<>>
    ELSE LET n == Len(s)
             front == SeqFilter(SubSeq(s, 1, n - 1), keep)
         IN  IF n \in keep THEN Append(front, s[n]) ELSE front

\* Vec::iter().find(|n| n.id == id): the first node with this id, as an Option.
FindNode(nodes, id) ==
    LET hits == {i \in 1..Len(nodes) : nodes[i].id = id}
    IN  IF hits = {} THEN None
        ELSE Some(nodes[CHOOSE i \in hits : \A j \in hits : i <= j])

\* Vec::iter().position(|n| n.id == id): index of the first node with this id, 0 if none.
Position(nodes, id) ==
    LET hits == {i \in 1..Len(nodes) : nodes[i].id = id}
    IN  IF hits = {} THEN 0 ELSE CHOOSE i \in hits : \A j \in hits : i <= j

\* ------------------------------------------------ directory listing (ops.rs)

\* File names are numbers; name 0 stands for a name that starts with '.'.
Hidden(name) == name = 0

\* a sorts before b: directories first, then by name.
EntryLess(a, b) ==
    IF a.is_dir /\ ~b.is_dir THEN TRUE
    ELSE IF ~a.is_dir /\ b.is_dir THEN FALSE
    ELSE a.name < b.name

RECURSIVE SortEntries(_)
SortEntries(S) ==
    IF S = {} THEN <<>>
    ELSE LET m == CHOOSE e \in S : \A o \in S \ {e} : EntryLess(e, o)
         IN  <<m>> \o SortEntries(S \ {m})

\* list_directory(path, include_hidden), given what fs::read_dir(path) yields:
\* rd.ok = FALSE is an Err, otherwise rd.entries is the set of raw entries.
list_directory(path, include_hidden, rd) ==
    LET raw == IF rd.ok THEN rd.entries ELSE {}
        kept == {e \in raw : include_hidden \/ ~Hidden(e.name)}
        file_list == {[name |-> e.name, path |-> Append(path, e.name),
                       is_dir |-> e.is_dir] : e \in kept}
    IN  SortEntries(file_list)

RawFile(n) == [name |-> n, is_dir |-> FALSE]
RawDir(n) == [name |-> n, is_dir |-> TRUE]

\* What fs::read_dir may yield for a directory at the moment it is read.
ReadDirs ==
    { [ok |-> FALSE, entries |-> {}],
      [ok |-> TRUE, entries |-> {}],
      [ok |-> TRUE, entries |-> {RawDir(1)}],
      [ok |-> TRUE, entries |-> {RawFile(0), RawDir(1), RawFile(2)}],
      [ok |-> TRUE, entries |-> {RawDir(1), RawDir(2)}] }

\* Sample streams of rng.gen_range(-20.0..20.0), in fixed point.
Rngs == { <<50, 50, 50, 50>> }

\* ------------------------------------------------------------ Graph Store

\* GraphState::new()
new ==
    [ nodes |-> <<>>, edges |-> <<>>, next_id |-> 0,
      cam_x |-> 0, cam_y |-> 0, zoom |-> ZQ,
      dragged_node |-> None, drag_offset_x |-> 0, drag_offset_y |-> 0,
      is_panning |-> FALSE, pan_start_x |-> 0, pan_start_y |-> 0,
      cam_start_x |-> 0, cam_start_y |-> 0,
      hovered_node |-> None, physics_enabled |-> TRUE ]

DirRadius == 22
FileRadius == 14
RootRadius == 28
BaseDist == 120

\* GraphState::add_root: the new state; the id returned is s.next_id.
add_root(s, path) ==
    [s EXCEPT !.next_id = s.next_id + 1,
              !.nodes = Append(s.nodes,
                  [ id |-> s.next_id, path |-> path, is_dir |-> TRUE,
                    is_expanded |-> FALSE, parent_id |-> None,
                    x |-> 0, y |-> 0, vx |-> 0, vy |-> 0,
                    radius |-> RootRadius * Q ])]

\* cos and sin of (i / count) * 2 * PI, in steps of 1/RQ, for count <= 4.
CosTab(i, count) ==
    IF i = 0 THEN 1000
    ELSE IF count = 2 THEN -1000
    ELSE IF count = 3 THEN -500
    ELSE IF i = 2 THEN -1000 ELSE 0

SinTab(i, count) ==
    IF i = 0 THEN 0
    ELSE IF count = 2 THEN 0
    ELSE IF count = 3 THEN (IF i = 1 THEN 866 ELSE -866)
    ELSE IF i = 1 THEN 1000 ELSE IF i = 3 THEN -1000 ELSE 0

\* A buggy variant of ChildNode: a directory entry starts out expanded.
ChildNodeExpandedDir(child_id, node_id, parent_x, parent_y, entry, i, count, rng) ==
    LET dist == BaseDist * Q + rng[i + 1]
    IN  [ id |-> child_id, path |-> entry.path, is_dir |-> entry.is_dir,
          is_expanded |-> entry.is_dir, parent_id |-> Some(node_id),
          x |-> parent_x + Div(CosTab(i, count) * dist, RQ),
          y |-> parent_y + Div(SinTab(i, count) * dist, RQ),
          vx |-> 0, vy |-> 0,
          radius |-> (IF entry.is_dir THEN DirRadius ELSE FileRadius) * Q ]

\* The node pushed for entry number i (from 0) of count, lines 151-184.
ChildNode(child_id, node_id, parent_x, parent_y, entry, i, count, rng) ==
    LET dist == BaseDist * Q + rng[i + 1]
    IN  [ id |-> child_id, path |-> entry.path, is_dir |-> entry.is_dir,
          is_expanded |-> FALSE, parent_id |-> Some(node_id),
          x |-> parent_x + Div(CosTab(i, count) * dist, RQ),
          y |-> parent_y + Div(SinTab(i, count) * dist, RQ),
          vx |-> 0, vy |-> 0,
          radius |-> (IF entry.is_dir THEN DirRadius ELSE FileRadius) * Q ]

\* A buggy variant of SetExpanded: the flag is never written.
SetExpandedLost(nodes, node_id, flag) == nodes

\* n.is_expanded = flag on the node found by id (lines 142-144 and 204-206).
SetExpanded(nodes, node_id, flag) ==
    LET p == Position(nodes, node_id)
    IN  IF p = 0 THEN nodes ELSE [nodes EXCEPT ![p].is_expanded = flag]

\* A buggy variant of ExpandProceeds: the is_expanded test is missing.
ExpandProceedsAgain(s, node_id) ==
    LET node == FindNode(s.nodes, node_id)
    IN  node # None /\ node[1].is_dir

\* A buggy variant of ExpandProceeds: the is_dir test is missing.
ExpandProceedsAnyKind(s, node_id) ==
    LET node == FindNode(s.nodes, node_id)
    IN  node # None /\ ~node[1].is_expanded

\* Whether expand_node gets past its early returns (lines 130-136).
ExpandProceeds(s, node_id) ==
    LET node == FindNode(s.nodes, node_id)
    IN  node # None /\ node[1].is_dir /\ ~node[1].is_expanded

\* The id given to the child pushed k-th (from 0): next_id before the loop plus k
\* (lines 151-152) -- a buggy variant numbers children by the vector's length.
ChildIdByLen(s, k) == Len(s.nodes) + k
ChildId(s, k) == s.next_id + k

\* The edge pushed with a child (lines 186-189) -- a buggy variant swaps its ends.
ChildEdgeSwapped(node_id, child_id) == [from |-> child_id, to |-> node_id]
ChildEdge(node_id, child_id) == [from |-> node_id, to |-> child_id]

\* GraphState::expand_node.  rd is what fs::read_dir yields if the listing is
\* made, rng the samples the random generator yields.
expand_node(s, node_id, rd, rng) ==
    IF ~ExpandProceeds(s, node_id) THEN s
    ELSE
        LET node == FindNode(s.nodes, node_id)[1]
            entries == list_directory(node.path, FALSE, rd)
            count == Len(entries)
            marked == SetExpanded(s.nodes, node_id, TRUE)
        IN  [s EXCEPT
              !.nodes = marked \o
                  [k \in 1..count |->
                      ChildNode(ChildId(s, k - 1), node_id, node.x, node.y,
                                entries[k], k - 1, count, rng)],
              !.edges = s.edges \o
                  [k \in 1..count |-> ChildEdge(node_id, ChildId(s, k - 1))],
              !.next_id = s.next_id + count]

\* The outward calls expand_node makes: the listing of the node's path.
expand_calls(s, node_id) ==
    IF ~ExpandProceeds(s, node_id) THEN <<>>
    ELSE <<[fn |-> "list_directory", path |-> FindNode(s.nodes, node_id)[1].path]>>

RECURSIVE ScanChildrenNoPush(_, _, _, _, _, _)
\* A buggy variant of ScanChildren: children are not pushed on the stack, so
\* only direct children are collected.
ScanChildrenNoPush(nodes, i, nid, node_id, stack, to_remove) ==
    IF i > Len(nodes) THEN [stack |-> stack, to_remove |-> to_remove]
    ELSE
        LET node == nodes[i]
        IN  IF node.parent_id = Some(nid) /\ node.id # node_id
            THEN ScanChildrenNoPush(nodes, i + 1, nid, node_id, stack,
                     Append(to_remove, node.id))
            ELSE ScanChildrenNoPush(nodes, i + 1, nid, node_id, stack, to_remove)

RECURSIVE ScanChildren(_, _, _, _, _, _)
\* The for loop of lines 212-219 from node index i on, for the popped id nid:
\* returns the stack and to_remove it leaves.
ScanChildren(nodes, i, nid, node_id, stack, to_remove) ==
    IF i > Len(nodes) THEN [stack |-> stack, to_remove |-> to_remove]
    ELSE
        LET node == nodes[i]
        IN  IF node.parent_id = Some(nid) /\ node.id # node_id
            THEN ScanChildren(nodes, i + 1, nid, node_id,
                     IF node.is_dir THEN Append(stack, node.id) ELSE stack,
                     Append(to_remove, node.id))
            ELSE ScanChildren(nodes, i + 1, nid, node_id, stack, to_remove)

RECURSIVE CollectDescendants(_, _, _, _)
\* The while loop of lines 211-220: pops the stack until it is empty.
CollectDescendants(nodes, node_id, stack, to_remove) ==
    IF stack = <<>> THEN to_remove
    ELSE
        LET nid == stack[Len(stack)]
            r == ScanChildren(nodes, 1, nid, node_id,
                              SubSeq(stack, 1, Len(stack) - 1), to_remove)
        IN  CollectDescendants(nodes, node_id, r.stack, r.to_remove)

InSeq(x, s) == \E i \in 1..Len(s) : s[i] = x

\* Whether collapse_node gets past its early return (lines 195-203).
CollapseProceeds(s, node_id) ==
    LET node == FindNode(s.nodes, node_id)
    IN  node # None /\ node[1].is_expanded

\* GraphState::collapse_node.
\* A variant of collapse_node that leaves a node without children as it is,
\* expanded flag included.
collapse_node_unless_childless(s, node_id) ==
    IF ~CollapseProceeds(s, node_id) THEN s
    ELSE IF \A i \in 1..Len(s.nodes) : s.nodes[i].parent_id # Some(node_id) THEN s
    ELSE
        LET marked == SetExpanded(s.nodes, node_id, FALSE)
            to_remove == CollectDescendants(marked, node_id, <<node_id>>, <<>>)
        IN  [s EXCEPT
              !.nodes = SeqFilter(marked,
                  {i \in 1..Len(marked) : ~InSeq(marked[i].id, to_remove)}),
              !.edges = SeqFilter(s.edges,
                  {i \in 1..Len(s.edges) :
                      ~InSeq(s.edges[i].from, to_remove)
                      /\ ~InSeq(s.edges[i].to, to_remove)})]

collapse_node(s, node_id) ==
    IF ~CollapseProceeds(s, node_id) THEN s
    ELSE
        LET marked == SetExpanded(s.nodes, node_id, FALSE)
            to_remove == CollectDescendants(marked, node_id, <<node_id>>, <<>>)
        IN  [s EXCEPT
              !.nodes = SeqFilter(marked,
                  {i \in 1..Len(marked) : ~InSeq(marked[i].id, to_remove)}),
              !.edges = SeqFilter(s.edges,
                  {i \in 1..Len(s.edges) :
                      ~InSeq(s.edges[i].from, to_remove)
                      /\ ~InSeq(s.edges[i].to, to_remove)})]

\* ---------------------------------------------------------- Physics Engine

Repulsion == 8000
SpringKPerCent == 2
SpringRest == 120
DampingPerCent == 85
MaxSpeed == 8
CenterPerMille == 1

\* max(1.0) on a distance (lines 253 and 271) -- a buggy variant has no floor.
FloorDistNone(d) == d
FloorDist(d) == Max(d, 1 * Q)

\* (dx / dist) * force, lines 255-256 and 274-275.
Along(dx, dist, force) == Div(Div(dx * RQ, dist) * force, RQ)

\* The repulsion node a receives from node b (lines 251-256): <<fdx, fdy>>.
RepulsionOn(a, b) ==
    LET dx == a.x - b.x
        dy == a.y - b.y
        dist == FloorDist(Hypot(dx, dy))
        force == Div(Repulsion * Q * Q * Q, dist * dist)
    IN  <<Along(dx, dist, force), Along(dy, dist, force)>>

\* The spring force an edge puts on its 'from' node (lines 269-275); its 'to'
\* node receives the opposite.
SpringOn(f, t) ==
    LET dx == t.x - f.x
        dy == t.y - f.y
        dist == FloorDist(Hypot(dx, dy))
        displacement == dist - SpringRest * Q
        force == Div(SpringKPerCent * displacement, 100)
    IN  <<Along(dx, dist, force), Along(dy, dist, force)>>

\* The centering pull, pos * 0.001 (lines 285-286) -- a buggy variant leaves
\* it out.
CenteringNone(pos) == 0
Centering(pos) == Div(pos * CenterPerMille, 1000)

RECURSIVE SumOver(_, _, _)
\* The sum of F[k][c] for k in S.
SumOver(S, F, c) ==
    IF S = {} THEN 0
    ELSE LET k == CHOOSE k \in S : TRUE
         IN  F[k][c] + SumOver(S \ {k}, F, c)

\* fx[i] (c = 1) or fy[i] (c = 2) after the three accumulation loops.
Force(s, i, c) ==
    LET n == Len(s.nodes)
        me == s.nodes[i]
        pair == [j \in (1..n) \ {i} |-> RepulsionOn(me, s.nodes[j])]
        \* edges whose two ends are found, by the index of their ends
        found == {k \in 1..Len(s.edges) :
                     Position(s.nodes, s.edges[k].from) # 0
                     /\ Position(s.nodes, s.edges[k].to) # 0}
        spring == [k \in found |->
                     LET fi == Position(s.nodes, s.edges[k].from)
                         ti == Position(s.nodes, s.edges[k].to)
                         f == SpringOn(s.nodes[fi], s.nodes[ti])
                         sign == (IF fi = i THEN 1 ELSE 0) - (IF ti = i THEN 1 ELSE 0)
                     IN  <<sign * f[1], sign * f[2]>>]
        pos == IF c = 1 THEN me.x ELSE me.y
    IN  SumOver(DOMAIN pair, pair, c) + SumOver(found, spring, c)
        - Centering(pos)

\* The distances physics_step divides by when it accumulates the force on
\* node i: to every other node (lines 253-256) and along every edge that node i
\* ends (lines 271-275), each after its floor.
DistDivisors(s, i) ==
    LET me == s.nodes[i]
        ends == {k \in 1..Len(s.edges) :
                    /\ Position(s.nodes, s.edges[k].from) # 0
                    /\ Position(s.nodes, s.edges[k].to) # 0
                    /\ i \in {Position(s.nodes, s.edges[k].from),
                               Position(s.nodes, s.edges[k].to)}}
    IN  {FloorDist(Hypot(me.x - s.nodes[j].x, me.y - s.nodes[j].y)) :
            j \in (1..Len(s.nodes)) \ {i}}
        \cup {FloorDist(Hypot(
                    s.nodes[Position(s.nodes, s.edges[k].to)].x
                        - s.nodes[Position(s.nodes, s.edges[k].from)].x,
                    s.nodes[Position(s.nodes, s.edges[k].to)].y
                        - s.nodes[Position(s.nodes, s.edges[k].from)].y)) : k \in ends}

\* What stands for an f64 that is not finite: a division 0.0 / 0.0 gives NaN,
\* and every sum and product with it is NaN.
NonFinite == 1000000000

\* Whether the integration loop skips node (line 291) -- a buggy variant
\* integrates the held node like any other.
HeldNever(s, node) == FALSE
Held(s, node) == Some(node.id) = s.dragged_node

\* A buggy variant of ClampSpeed: the velocity is left as it is.
ClampSpeedNone(vx, vy) == <<vx, vy>>

\* A buggy variant of the clamp: each component is limited on its own.
ClampSpeedPerAxis(vx, vy) ==
    << Max(-(MaxSpeed * Q), Min(vx, MaxSpeed * Q)),
       Max(-(MaxSpeed * Q), Min(vy, MaxSpeed * Q)) >>

\* Lines 299-304: the velocity after the speed clamp.
ClampSpeed(vx, vy) ==
    LET speed == Hypot(vx, vy)
    IN  IF speed > MaxSpeed * Q
        THEN <<Div(Div(vx * RQ, speed) * (MaxSpeed * Q), RQ),
               Div(Div(vy * RQ, speed) * (MaxSpeed * Q), RQ)>>
        ELSE <<vx, vy>>

\* Lines 290-308 for node i, given its accumulated force.
Integrate(s, i) ==
    LET node == s.nodes[i]
    IN  IF Held(s, node) THEN [node EXCEPT !.vx = 0, !.vy = 0]
        ELSE IF 0 \in DistDivisors(s, i)
        THEN [node EXCEPT !.vx = NonFinite, !.vy = NonFinite,
                          !.x = NonFinite, !.y = NonFinite]
        ELSE
            LET vx == Div((node.vx + Force(s, i, 1)) * DampingPerCent, 100)
                vy == Div((node.vy + Force(s, i, 2)) * DampingPerCent, 100)
                v == ClampSpeed(vx, vy)
            IN  [node EXCEPT !.vx = v[1], !.vy = v[2],
                             !.x = node.x + v[1], !.y = node.y + v[2]]

\* GraphState::physics_step.
physics_step(s) ==
    IF ~s.physics_enabled \/ Len(s.nodes) = 0 THEN s
    ELSE [s EXCEPT !.nodes = [i \in 1..Len(s.nodes) |-> Integrate(s, i)]]

\* ----------------------------------------------------- Camera, hit testing

\* dx * dx + dy * dy <= radius * radius; a point further than radius along one
\* axis is outside whatever the other axis says, and is not squared.
Inside(node, wx, wy) ==
    LET dx == wx - node.x
        dy == wy - node.y
    IN  /\ Abs(dx) <= node.radius
        /\ Abs(dy) <= node.radius
        /\ dx * dx + dy * dy <= node.radius * node.radius

\* A buggy variant of node_at: the first node in insertion order wins.
node_at_first(s, wx, wy) ==
    LET hits == {i \in 1..Len(s.nodes) : Inside(s.nodes[i], wx, wy)}
    IN  IF hits = {} THEN None
        ELSE Some(s.nodes[CHOOSE i \in hits : \A j \in hits : i <= j].id)

\* GraphState::node_at: nodes.iter().rev(), the first hit returns.
node_at(s, wx, wy) ==
    LET hits == {i \in 1..Len(s.nodes) : Inside(s.nodes[i], wx, wy)}
    IN  IF hits = {} THEN None
        ELSE Some(s.nodes[CHOOSE i \in hits : \A j \in hits : i >= j].id)

\* GraphState::screen_to_world: <<wx, wy>>.
screen_to_world(s, sx, sy, width, height) ==
    << Div((sx - Div(width, 2)) * ZQ, s.zoom) + s.cam_x,
       Div((sy - Div(height, 2)) * ZQ, s.zoom) + s.cam_y >>

\* area.width() and area.height(), in pixels.
ViewW == 800
ViewH == 600

\* ------------------------------------------------- Interaction Controller

ZoomStepPerCent == 110
ZoomMinPerCent == 10
ZoomMaxPerCent == 500

\* clamp(0.1, 5.0), line 385 -- a buggy variant does not clamp.
ClampZoomNone(z) == z
ClampZoom(z) ==
    Max(Div(ZoomMinPerCent * ZQ, 100), Min(z, Div(ZoomMaxPerCent * ZQ, 100)))

\* A variant of scroll that keeps the world point at the view's centre by
\* shifting the camera as it zooms.
scroll_with_camera(s, dy) ==
    LET step == Div(ZoomStepPerCent * ZQ, 100)
        factor == IF dy < 0 THEN step ELSE Div(ZQ * ZQ, step)
        z == ClampZoom(Div(s.zoom * factor, ZQ))
    IN  [s EXCEPT !.zoom = z, !.cam_x = Div(s.cam_x * s.zoom, z),
                  !.cam_y = Div(s.cam_y * s.zoom, z)]

\* The scroll handler, lines 382-387.
scroll(s, dy) ==
    LET step == Div(ZoomStepPerCent * ZQ, 100)
        factor == IF dy < 0 THEN step ELSE Div(ZQ * ZQ, step)
    IN  [s EXCEPT !.zoom = ClampZoom(Div(s.zoom * factor, ZQ))]

\* The world point under screen point <<x, y>>.
WorldAt(s, x, y) == screen_to_world(s, x, y, ViewW * Q, ViewH * Q)

\* A buggy variant of motion: over empty space the hover is left as it was.
motion_keeps_hover(s, x, y) ==
    LET w == WorldAt(s, x, y)
        hit == node_at(s, w[1], w[2])
    IN  [s EXCEPT !.hovered_node = IF hit = None THEN s.hovered_node ELSE hit]

\* The motion handler, lines 396-402.
motion(s, x, y) ==
    LET w == WorldAt(s, x, y)
    IN  [s EXCEPT !.hovered_node = node_at(s, w[1], w[2])]

\* is_dir == Some(true), lines 417 and 419 -- a buggy variant takes every node
\* for a directory.
TargetIsDirAlways(s, nid) == TRUE
TargetIsDir(s, nid) ==
    LET node == FindNode(s.nodes, nid)
    IN  node # None /\ node[1].is_dir

\* is_expanded == Some(true), lines 418 and 420.
TargetIsExpanded(s, nid) ==
    LET node == FindNode(s.nodes, nid)
    IN  node # None /\ node[1].is_expanded

\* A buggy variant of ToggleDir: a click only ever expands.
ToggleDirExpandOnly(s, nid, rd, rng) == expand_node(s, nid, rd, rng)

\* Lines 420-424.
ToggleDir(s, nid, rd, rng) ==
    IF TargetIsExpanded(s, nid) THEN collapse_node(s, nid)
    ELSE expand_node(s, nid, rd, rng)

\* The click handler (GestureClick released), lines 411-432.
click_released(s, x, y, rd, rng) ==
    LET w == WorldAt(s, x, y)
        hit == node_at(s, w[1], w[2])
    IN  IF hit = None THEN s
        ELSE IF TargetIsDir(s, hit[1]) THEN ToggleDir(s, hit[1], rd, rng)
        ELSE s

\* The outward calls of the click handler: the listing made by expand_node, or
\* open::that on a file node's path (its result is dropped, line 428).
click_calls(s, x, y) ==
    LET w == WorldAt(s, x, y)
        hit == node_at(s, w[1], w[2])
    IN  IF hit = None THEN <<>>
        ELSE IF TargetIsDir(s, hit[1])
        THEN (IF TargetIsExpanded(s, hit[1]) THEN <<>> ELSE expand_calls(s, hit[1]))
        ELSE IF FindNode(s.nodes, hit[1]) = None THEN <<>>
        ELSE <<[fn |-> "open::that", path |-> FindNode(s.nodes, hit[1])[1].path]>>

\* A buggy variant of drag_begin: no grab offset is taken, so the node's centre
\* will follow the pointer.
drag_begin_no_offset(s, x, y) ==
    LET w == WorldAt(s, x, y)
        hit == node_at(s, w[1], w[2])
    IN  IF hit # None
        THEN [s EXCEPT !.dragged_node = Some(hit[1]),
                       !.drag_offset_x = 0, !.drag_offset_y = 0]
        ELSE [s EXCEPT !.is_panning = TRUE,
                       !.pan_start_x = x, !.pan_start_y = y,
                       !.cam_start_x = s.cam_x, !.cam_start_y = s.cam_y]

\* The drag_begin handler, lines 444-464.
drag_begin(s, x, y) ==
    LET w == WorldAt(s, x, y)
        hit == node_at(s, w[1], w[2])
    IN  IF hit # None
        THEN LET node == FindNode(s.nodes, hit[1])
             IN  IF node = None THEN s
                 ELSE [s EXCEPT !.dragged_node = Some(hit[1]),
                                !.drag_offset_x = w[1] - node[1].x,
                                !.drag_offset_y = w[2] - node[1].y]
        ELSE [s EXCEPT !.is_panning = TRUE,
                       !.pan_start_x = x, !.pan_start_y = y,
                       !.cam_start_x = s.cam_x, !.cam_start_y = s.cam_y]

\* The drag_update handler, lines 468-488; sp is gesture.start_point().
\* A buggy variant of drag_update: when the held node is not found, the pan
\* branch is tried.
drag_update_stale_pans(s, sp, dx, dy) ==
    LET pan == IF s.is_panning
               THEN [s EXCEPT !.cam_x = s.cam_start_x - Div(dx * ZQ, s.zoom),
                              !.cam_y = s.cam_start_y - Div(dy * ZQ, s.zoom)]
               ELSE s
    IN  IF s.dragged_node # None
        THEN IF sp = None THEN s
             ELSE LET w == WorldAt(s, sp[1][1] + dx, sp[1][2] + dy)
                      p == Position(s.nodes, s.dragged_node[1])
                  IN  IF p = 0 THEN pan
                      ELSE [s EXCEPT !.nodes[p].x = w[1] - s.drag_offset_x,
                                     !.nodes[p].y = w[2] - s.drag_offset_y,
                                     !.nodes[p].vx = 0, !.nodes[p].vy = 0]
        ELSE pan

\* A buggy variant of drag_update: a pan moves the camera on from where it is,
\* by the whole offset each time.
drag_update_incremental(s, sp, dx, dy) ==
    IF s.dragged_node # None
    THEN IF sp = None THEN s
         ELSE LET w == WorldAt(s, sp[1][1] + dx, sp[1][2] + dy)
                  p == Position(s.nodes, s.dragged_node[1])
              IN  IF p = 0 THEN s
                  ELSE [s EXCEPT !.nodes[p].x = w[1] - s.drag_offset_x,
                                 !.nodes[p].y = w[2] - s.drag_offset_y,
                                 !.nodes[p].vx = 0, !.nodes[p].vy = 0]
    ELSE IF s.is_panning
    THEN [s EXCEPT !.cam_x = s.cam_x - Div(dx * ZQ, s.zoom),
                   !.cam_y = s.cam_y - Div(dy * ZQ, s.zoom)]
    ELSE s

drag_update(s, sp, dx, dy) ==
    IF s.dragged_node # None
    THEN IF sp = None THEN s
         ELSE LET w == WorldAt(s, sp[1][1] + dx, sp[1][2] + dy)
                  p == Position(s.nodes, s.dragged_node[1])
              IN  IF p = 0 THEN s
                  ELSE [s EXCEPT !.nodes[p].x = w[1] - s.drag_offset_x,
                                 !.nodes[p].y = w[2] - s.drag_offset_y,
                                 !.nodes[p].vx = 0, !.nodes[p].vy = 0]
    ELSE IF s.is_panning
    THEN [s EXCEPT !.cam_x = s.cam_start_x - Div(dx * ZQ, s.zoom),
                   !.cam_y = s.cam_start_y - Div(dy * ZQ, s.zoom)]
    ELSE s

\* A buggy variant of drag_end: the release also acts as a click on the
\* dragged node and collapses it.
drag_end_collapsing(s) ==
    LET t == IF s.dragged_node = None THEN s ELSE collapse_node(s, s.dragged_node[1])
    IN  [t EXCEPT !.dragged_node = None, !.is_panning = FALSE]

\* A buggy variant of drag_end: only the dragged node is let go, a pan stays on.
drag_end_keeps_pan(s) == [s EXCEPT !.dragged_node = None]

\* The drag_end handler, lines 491-495.
drag_end(s) == [s EXCEPT !.dragged_node = None, !.is_panning = FALSE]

\* ---------------------------------------------------------- construction

RootPath == <<>>

\* A variant of Built that leaves out the expand_node(root_id) of line 347.
BuiltRootOnly(rd, rng) == add_root(new, RootPath)

\* build_graph_view, lines 340-348: new(), add_root, expand_node(root_id).
Built(rd, rng) == expand_node(add_root(new, RootPath), 0, rd, rng)

\* The record kept of the callback that ran last:
\*   op, id        the callback and the node id it was given or it hit (-1: none)
\*   outcome       the branch it took
\*   calls         its outward calls (list_directory, open::that)
\*   read          what its list_directory call met: "none" (no call), "err"
\*                 (fs::read_dir failed), "empty" (no entry listed), "entries"
\*   listed        the entries that call returned
\*   added         the ids of the nodes it added
\*   removed       the nodes it removed
\*   ptr           for a motion callback, the pointer's screen position
\*   seq, ptr, grab  the gesture followed since a pointer-down on a node with no
\*                 other input in between: "down", then "moved" (ptr is the
\*                 pointer's screen position), then "released"; grab is the
\*                 offset between pointer and node centre at pointer-down,
\*                 from the pointer position at that pointer-down,
\*                 stepped whether the timer fired since that pointer-down
\*   delta         for a drag-update callback that finds is_panning set and
\*                 follows no gesture on a node, the offset it was given
Quiet == [op |-> "build", id |-> -1, outcome |-> "", calls |-> <<>>, read |-> "none",
          listed |-> <<>>,
          added |-> {}, removed |-> <<>>,
          seq |-> "none", ptr |-> <<0, 0>>, grab |-> <<0, 0>>, from |-> <<0, 0>>,
          stepped |-> FALSE, delta |-> <<0, 0>>]

Init ==
    /\ \E rd \in ReadDirs, rng \in Rngs : state = Built(rd, rng)
    /\ start_point = None
    /\ ticks = 0
    /\ gestures = 0
    /\ last = Quiet

\* ------------------------------------------- direct calls into the store

NodeIds(s) == {s.nodes[i].id : i \in 1..Len(s.nodes)}

\* The nodes a call removed: those of s missing from t.
RemovedNodes(s, t) ==
    SeqFilter(s.nodes, {i \in 1..Len(s.nodes) : s.nodes[i].id \notin NodeIds(t)})

ExpandOutcome(s, node_id) ==
    LET node == FindNode(s.nodes, node_id)
    IN  IF node = None THEN "unknown"
        ELSE IF ~node[1].is_dir THEN "file"
        ELSE IF node[1].is_expanded THEN "already_expanded"
        ELSE "expanded"

CollapseOutcome(s, node_id) ==
    LET node == FindNode(s.nodes, node_id)
    IN  IF node = None THEN "unknown"
        ELSE IF ~node[1].is_expanded THEN "not_expanded"
        ELSE "collapsed"

\* What the listing made by expand_node(s, node_id) meets, given the read rd.
ReadMet(s, node_id, rd) ==
    IF ~ExpandProceeds(s, node_id) THEN "none"
    ELSE IF ~rd.ok THEN "err"
    ELSE IF list_directory(FindNode(s.nodes, node_id)[1].path, FALSE, rd) = <<>> THEN "empty"
    ELSE "entries"

\* The entries the listing made by expand_node(s, node_id) returns.
Listed(s, node_id, rd) ==
    IF ~ExpandProceeds(s, node_id) THEN <<>>
    ELSE list_directory(FindNode(s.nodes, node_id)[1].path, FALSE, rd)

\* The model stops issuing ids at MaxId.
WithinBounds(s) == s.next_id <= MaxId

CallExpand(node_id, rd, rng) ==
    LET t == expand_node(state, node_id, rd, rng)
    IN  /\ WithinBounds(t)
        /\ state' = t
        /\ last' = [Quiet EXCEPT !.op = "expand_node", !.id = node_id,
                    !.outcome = ExpandOutcome(state, node_id),
                    !.calls = expand_calls(state, node_id),
                    !.read = ReadMet(state, node_id, rd),
                    !.listed = Listed(state, node_id, rd),
                    !.added = NodeIds(t) \ NodeIds(state)]
        /\ UNCHANGED <<start_point, ticks, gestures>>

CallCollapse(node_id) ==
    LET t == collapse_node(state, node_id)
    IN  /\ state' = t
        /\ last' = [Quiet EXCEPT !.op = "collapse_node", !.id = node_id,
                    !.outcome = CollapseOutcome(state, node_id),
                    !.removed = RemovedNodes(state, t)]
        /\ UNCHANGED <<start_point, ticks, gestures>>

\* The ids a caller may pass: every live id, an id whose node was removed
\* (the smallest such), and an id that was never issued.
CallIds(s) ==
    LET gone == (0..(s.next_id - 1)) \ NodeIds(s)
    IN  NodeIds(s) \cup {s.next_id}
        \cup (IF gone = {} THEN {} ELSE {CHOOSE g \in gone : \A h \in gone : g <= h})

\* fs::read_dir and the random generator are consulted only by an expand_node
\* that lists: any other call is enumerated once.
ReadsFor(s, node_id) ==
    IF ExpandProceeds(s, node_id) THEN ReadDirs ELSE {[ok |-> FALSE, entries |-> {}]}

StoreNext ==
    \/ \E node_id \in CallIds(state), rng \in Rngs :
          \E rd \in ReadsFor(state, node_id) : CallExpand(node_id, rd, rng)
    \/ \E node_id \in CallIds(state) : CallCollapse(node_id)

SpecStore == Init /\ [][StoreNext]_vars

\* ------------------------------------------------------------ the callbacks

\* The timer is followed for MaxTicks firings and the pointer for MaxGestures
\* drag gestures, the camera within MaxPan units of the origin, the zoom (but
\* in SpecZoom) from 1.0 up to MaxZoomInPerCent per cent above it.
MaxTicks == 1
MaxGestures == 2
MaxPan == 70
MaxZoomInPerCent == 10

\* Screen points of pointer events, in pixels: the centre of the view (where
\* the root starts), 120 to its right and to its left (where children start),
\* and a point of empty space.
Centre == <<400, 300>>
Right == <<520, 300>>
Left == <<280, 300>>
Empty == <<400, 590>>
UiPoints == { Centre, Right, Left, Empty }

\* Offsets of the pointer from the start of a drag, in pixels.
DragOffsets == { <<0, 0>>, <<60, 40>> }

HitId(s, x, y) ==
    LET w == WorldAt(s, x, y)
        hit == node_at(s, w[1], w[2])
    IN  IF hit = None THEN -1 ELSE hit[1]

\* What of the followed gesture a callback that is no input event keeps.
KeepGesture(op) ==
    IF last.seq \in {"down", "moved"}
    THEN [Quiet EXCEPT !.op = op, !.seq = last.seq, !.ptr = last.ptr,
                       !.grab = last.grab, !.from = last.from, !.stepped = TRUE]
    ELSE [Quiet EXCEPT !.op = op]

\* The 16 ms timer, lines 369-373, followed for max firings.
TickUpTo(max) ==
    /\ ticks < max
    /\ state' = physics_step(state)
    /\ ticks' = ticks + 1
    /\ last' = KeepGesture("tick")
    /\ UNCHANGED <<start_point, gestures>>

Tick == TickUpTo(MaxTicks)

\* The draw callback, lines 359-362: draw_graph reads the state through a
\* shared borrow.
Draw ==
    /\ last' = KeepGesture("draw")
    /\ UNCHANGED <<state, start_point, ticks, gestures>>

Scroll(dy) ==
    /\ state' = scroll(state, dy)
    /\ last' = [Quiet EXCEPT !.op = "scroll", !.outcome = IF dy < 0 THEN "in" ELSE "out"]
    /\ UNCHANGED <<start_point, ticks, gestures>>

Motion(x, y) ==
    /\ state' = motion(state, x * Q, y * Q)
    /\ last' = [Quiet EXCEPT !.op = "motion", !.ptr = <<x * Q, y * Q>>]
    /\ UNCHANGED <<start_point, ticks, gestures>>

ClickOutcome(s, x, y) ==
    LET id == HitId(s, x, y)
        node == FindNode(s.nodes, id)
    IN  IF id = -1 THEN "miss"
        ELSE IF ~node[1].is_dir THEN "open"
        ELSE IF node[1].is_expanded THEN "collapse"
        ELSE "expand"

\* opened is whether open::that succeeds, if it is called.
Click(x, y, rd, rng, opened) ==
    LET t == click_released(state, x * Q, y * Q, rd, rng)
        outcome == ClickOutcome(state, x * Q, y * Q)
    IN  /\ t.next_id <= MaxClickId
        /\ state' = t
        /\ last' = [Quiet EXCEPT !.op = "click", !.id = HitId(state, x * Q, y * Q),
                      !.outcome = IF outcome = "open" /\ ~opened THEN "open_failed"
                                  ELSE outcome,
                      !.calls = click_calls(state, x * Q, y * Q),
                      !.read = IF outcome = "expand"
                               THEN ReadMet(state, HitId(state, x * Q, y * Q), rd)
                               ELSE "none",
                      !.listed = IF outcome = "expand"
                                 THEN Listed(state, HitId(state, x * Q, y * Q), rd)
                                 ELSE <<>>,
                      !.added = NodeIds(t) \ NodeIds(state),
                      !.removed = RemovedNodes(state, t)]
        /\ UNCHANGED <<start_point, ticks, gestures>>

Active(s) == s.dragged_node # None \/ s.is_panning

DragBegin(x, y) ==
    LET t == drag_begin(state, x * Q, y * Q)
        id == HitId(state, x * Q, y * Q)
    IN  /\ gestures < MaxGestures
        /\ gestures' = gestures + 1
        /\ state' = t
        /\ start_point' = Some(<<x * Q, y * Q>>)
        /\ last' = [Quiet EXCEPT !.op = "drag_begin", !.id = id,
                      !.outcome = IF Active(state) THEN "while_active" ELSE "from_idle",
                      !.seq = IF id = -1 THEN "none" ELSE "down",
                      !.grab = IF id = -1 THEN <<0, 0>>
                               ELSE <<t.drag_offset_x, t.drag_offset_y>>,
                      !.from = IF id = -1 THEN <<0, 0>> ELSE <<x * Q, y * Q>>]
        /\ UNCHANGED ticks

DragUpdate(dx, dy) ==
    LET t == drag_update(state, start_point, dx * Q, dy * Q)
        followed == last.seq \in {"down", "moved"} /\ start_point # None
    IN  /\ Abs(t.cam_x) <= MaxPan * Q /\ Abs(t.cam_y) <= MaxPan * Q
        /\ state' = t
        /\ last' = IF followed
                   THEN [Quiet EXCEPT !.op = "drag_update", !.seq = "moved",
                            !.ptr = <<start_point[1][1] + dx * Q, start_point[1][2] + dy * Q>>,
                            !.grab = last.grab, !.from = last.from,
                            !.stepped = last.stepped]
                   ELSE [Quiet EXCEPT !.op = "drag_update",
                            !.delta = IF state.is_panning THEN <<dx * Q, dy * Q>>
                                      ELSE <<0, 0>>]
        /\ UNCHANGED <<start_point, ticks, gestures>>

DragEnd ==
    /\ state' = drag_end(state)
    /\ start_point' = None
    /\ last' = IF last.seq = "moved" /\ state.dragged_node # None
               THEN [Quiet EXCEPT !.op = "drag_end", !.id = state.dragged_node[1],
                        !.seq = "released", !.ptr = last.ptr, !.grab = last.grab,
                        !.from = last.from, !.stepped = last.stepped]
               ELSE [Quiet EXCEPT !.op = "drag_end"]
    /\ UNCHANGED <<ticks, gestures>>

\* fs::read_dir and the opener matter only to a click that uses them: any
\* other click is enumerated once.
ClickReads(outcome) ==
    IF outcome = "expand" THEN ReadDirs ELSE {[ok |-> FALSE, entries |-> {}]}
ClickOpens(outcome) == IF outcome = "open" THEN BOOLEAN ELSE {TRUE}

\* A click at pt with every input it may draw.
ClickAt(pt) ==
    LET outcome == ClickOutcome(state, pt[1] * Q, pt[2] * Q)
    IN  \E rd \in ClickReads(outcome), rng \in Rngs, opened \in ClickOpens(outcome) :
            Click(pt[1], pt[2], rd, rng, opened)

NearOne(z) == ZQ <= z /\ z * 100 <= (100 + MaxZoomInPerCent) * ZQ

Next ==
    \/ Tick
    \/ Draw
    \/ \E dy \in {-1, 1} : Scroll(dy) /\ NearOne(state'.zoom)
    \/ \E pt \in UiPoints : Motion(pt[1], pt[2])
    \/ \E pt \in UiPoints : ClickAt(pt)
    \/ \E pt \in UiPoints : DragBegin(pt[1], pt[2])
    \/ \E d \in DragOffsets : DragUpdate(d[1], d[2])
    \/ DragEnd

Spec == Init /\ [][Next]_vars

\* The graph built over a directory that holds a hidden file, a directory and
\* a file.
DragInit ==
    /\ \E rng \in Rngs :
          state = Built([ok |-> TRUE, entries |-> {RawFile(0), RawDir(1), RawFile(2)}], rng)
    /\ start_point = None
    /\ ticks = 0
    /\ gestures = 0
    /\ last = Quiet

\* Drag gestures, the timer and the scroll wheel turned to zoom in.
DragNext ==
    \/ Tick
    \/ Scroll(-1) /\ NearOne(state'.zoom)
    \/ \E pt \in UiPoints : DragBegin(pt[1], pt[2])
    \/ \E d \in DragOffsets : DragUpdate(d[1], d[2])
    \/ DragEnd

SpecDrag == DragInit /\ [][DragNext]_vars

\* Clicks, pointer motion and the timer.
ClickNext ==
    \/ Tick
    \/ \E pt \in UiPoints : Motion(pt[1], pt[2])
    \/ \E pt \in UiPoints : ClickAt(pt)

SpecClick == Init /\ [][ClickNext]_vars

\* Clicks and the timer alone, from every listing at construction.
RetryNext ==
    \/ Tick
    \/ \E pt \in UiPoints : ClickAt(pt)

SpecRetry == Init /\ [][RetryNext]_vars

\* Construction over a directory that cannot be read or holds one directory.
ZoomInit ==
    /\ \E rd \in {[ok |-> FALSE, entries |-> {}], [ok |-> TRUE, entries |-> {RawDir(1)}]} :
          \E rng \in Rngs : state = Built(rd, rng)
    /\ start_point = None
    /\ ticks = 0
    /\ gestures = 0
    /\ last = Quiet

\* The scroll wheel over its whole range, with the timer and pointer motion.
ZoomNext ==
    \/ Tick
    \/ \E dy \in {-1, 1} : Scroll(dy)
    \/ \E pt \in {Centre, Empty} : Motion(pt[1], pt[2])

SpecZoom == ZoomInit /\ [][ZoomNext]_vars

\* Screen points on a horizontal line through the centre of the view: on and
\* next to the rim of a directory node at the world origin (radius 22), of the
\* root (radius 28), and of a child of the root at angle 0 (centre 125).
GrandRim == <<422, 300>>
RootOnly == <<425, 300>>
RootRim == <<428, 300>>
PastRoot == <<429, 300>>
BeforeChild == <<502, 300>>
ChildRim == <<503, 300>>
HitPoints ==
    { Centre, GrandRim, RootOnly, RootRim, PastRoot, BeforeChild, ChildRim, Right, Empty }

\* Pointer motion over HitPoints, clicks on the child to the right of the
\* root, and the timer.
HitNext ==
    \/ Tick
    \/ \E pt \in HitPoints : Motion(pt[1], pt[2])
    \/ ClickAt(Right)

SpecHit == Init /\ [][HitNext]_vars

\* A directory that holds one directory, whenever it is read.
OneDir == [ok |-> TRUE, entries |-> {RawDir(1)}]

FrameInit ==
    /\ \E rng \in Rngs : state = Built(OneDir, rng)
    /\ start_point = None
    /\ ticks = 0
    /\ gestures = 0
    /\ last = Quiet

\* Every callback once over: the timer, drawing, zooming in, hover over the
\* centre, clicks on the centre, drags that start at the centre or in empty
\* space and move by 60 and 40 pixels.
FrameNext ==
    \/ Tick
    \/ Draw
    \/ Scroll(-1) /\ NearOne(state'.zoom)
    \/ Motion(Centre[1], Centre[2])
    \/ \E rng \in Rngs : Click(Centre[1], Centre[2], OneDir, rng, TRUE)
    \/ \E pt \in {Centre, Empty} : DragBegin(pt[1], pt[2])
    \/ DragUpdate(60, 40)
    \/ DragEnd

SpecFrame == FrameInit /\ [][FrameNext]_vars

\* The timer followed for MaxSteps firings, with clicks on the root (which
\* collapse it, leaving it alone, and expand it again) and drags of the root.
MaxSteps == 2

PhysicsNext ==
    \/ TickUpTo(MaxSteps)
    \/ ClickAt(Centre)
    \/ DragBegin(Centre[1], Centre[2])
    \/ \E d \in DragOffsets : DragUpdate(d[1], d[2])
    \/ DragEnd

SpecPhysics == Init /\ [][PhysicsNext]_vars

\* The release of button 1 ends the drag gesture (drag_end, line 491) and is
\* also the release the click gesture reports (released, line 411): both
\* gestures are built for button 1 and added to the same area (lines 409, 434,
\* 438, 497), neither claims the event sequence, and the released handler
\* reads neither the press count nor any record of the movement.  The
\* released callback of a followed gesture runs at the point of release.
ReleasePoint == <<last.ptr[1] \div Q, last.ptr[2] \div Q>>

ClickReleased ==
    /\ last.op = "drag_end" /\ last.seq = "released"
    /\ ClickAt(ReleasePoint)

\* Press, move, release on the root and on its children, with the timer.
ReleaseNext ==
    \/ Tick
    \/ \E pt \in {Centre, Right, Left} : DragBegin(pt[1], pt[2])
    \/ \E d \in DragOffsets : DragUpdate(d[1], d[2])
    \/ DragEnd
    \/ ClickReleased

SpecRelease == DragInit /\ [][ReleaseNext]_vars

\* draw_graph, line 533: the positions of the nodes drawn as hovered.
HoveredDrawn(s) == {i \in 1..Len(s.nodes) : s.hovered_node = Some(s.nodes[i].id)}

\* Hover over the root, its child and empty space, clicks on the root and on
\* the child, the timer and drawing.
HoverNext ==
    \/ Tick
    \/ Draw
    \/ \E pt \in {Centre, Right, Empty} : Motion(pt[1], pt[2])
    \/ \E pt \in {Centre, Right} : \E rng \in Rngs : Click(pt[1], pt[2], OneDir, rng, TRUE)

SpecHover == FrameInit /\ [][HoverNext]_vars

\* Drags that start where the child to the right of the root starts, clicks
\* on the root, the timer.
HeldNext ==
    \/ Tick
    \/ \E rng \in Rngs : Click(Centre[1], Centre[2], OneDir, rng, TRUE)
    \/ DragBegin(Right[1], Right[2])
    \/ DragUpdate(60, 40)
    \/ DragEnd

SpecHeld == FrameInit /\ [][HeldNext]_vars

\* Drags of the child to the right of the root onto the root, exactly, five
\* units beside it and five units beside and below it, with the timer followed
\* for MaxSteps firings.
OntoRoot == <<-125, 0>>
BesideRoot == <<-120, 0>>
AskewOfRoot == <<-120, 5>>

CollideNext ==
    \/ TickUpTo(MaxSteps)
    \/ DragBegin(Right[1], Right[2])
    \/ \E d \in {OntoRoot, BesideRoot, AskewOfRoot} : DragUpdate(d[1], d[2])
    \/ DragEnd

SpecCollide == FrameInit /\ [][CollideNext]_vars

\* Clicks at the centre and to its right, which collapse directories and
\* expand them again, now with two directories inside, and drags of the nodes
\* right and left of the root onto it.
OntoRootFromLeft == <<125, 0>>
TwoDirs == [ok |-> TRUE, entries |-> {RawDir(1), RawDir(2)}]

OverlapNext ==
    \/ \E pt \in {Centre, Right} : \E rng \in Rngs : Click(pt[1], pt[2], TwoDirs, rng, TRUE)
    \/ \E pt \in {Right, Left} : DragBegin(pt[1], pt[2])
    \/ \E d \in {OntoRoot, OntoRootFromLeft} : DragUpdate(d[1], d[2])
    \/ DragEnd

SpecOverlap == FrameInit /\ [][OverlapNext]_vars

\* ------------------------------------------------ reading the graph store

Nodes(s) == {s.nodes[i] : i \in 1..Len(s.nodes)}
Edges(s) == {s.edges[i] : i \in 1..Len(s.edges)}
ChildrenOf(s, id) == {n \in Nodes(s) : n.parent_id = Some(id)}

RECURSIVE Closure(_, _)
\* The ids reachable from the ids in D by parent_id links, D included.
Closure(s, D) ==
    LET more == {n.id : n \in {m \in Nodes(s) :
                     m.parent_id # None /\ m.parent_id[1] \in D}} \ D
    IN  IF more = {} THEN D ELSE Closure(s, D \cup more)

\* The transitive descendants of id: children, grandchildren, ...
Descendants(s, id) == Closure(s, {id}) \ {id}

\* ------------------------------------------------------------ claims C1..C5

EdgesLive == \A e \in Edges(state) : e.from \in NodeIds(state) /\ e.to \in NodeIds(state)
IdsDistinct ==
    \A i, j \in 1..Len(state.nodes) : state.nodes[i].id = state.nodes[j].id => i = j
IdsBelowNext == \A id \in NodeIds(state) : id < state.next_id
FreshIdsOnly ==
    /\ state'.next_id >= state.next_id
    /\ \A id \in NodeIds(state') \ NodeIds(state) : id >= state.next_id

\* C1: under any sequence of expand_node / collapse_node calls on live or stale
\* ids, every edge joins two live nodes, live ids are pairwise distinct and below
\* next_id, next_id never decreases and a node that appears gets an id that is at
\* least the former next_id, so no id is ever issued twice.
C1_IdsAndEdges ==
    /\ [](EdgesLive /\ IdsDistinct /\ IdsBelowNext)
    /\ [][FreshIdsOnly]_vars

\* An expand_node that added children while an id issued earlier is gone.
C1_Witness ==
    /\ last.op = "expand_node" /\ last.added # {}
    /\ \E g \in 0..(state.next_id - 1) :
          g \notin NodeIds(state) /\ \A a \in last.added : g < a

\* What collapse_node(id) must leave of s: every node but the descendants of id,
\* in order, id unexpanded, and every edge that touches no descendant.
CollapseResult(s, id) ==
    LET D == Descendants(s, id)
        kept == SeqFilter(s.nodes, {i \in 1..Len(s.nodes) : s.nodes[i].id \notin D})
    IN  [s EXCEPT
          !.nodes = [i \in 1..Len(kept) |->
                        IF kept[i].id = id THEN [kept[i] EXCEPT !.is_expanded = FALSE]
                        ELSE kept[i]],
          !.edges = SeqFilter(s.edges, {i \in 1..Len(s.edges) :
                        s.edges[i].from \notin D /\ s.edges[i].to \notin D})]

CollapseIsExact ==
    (last'.op = "collapse_node" /\ last'.outcome = "collapsed")
        => state' = CollapseResult(state, last'.id)

ExpandThenCollapseRestores ==
    (/\ last.op = "expand_node" /\ last.outcome = "expanded"
     /\ last'.op = "collapse_node" /\ last'.id = last.id)
        => /\ NodeIds(state') = NodeIds(state) \ last.added
           /\ Edges(state') = {e \in Edges(state) : e.to \notin last.added}
           /\ Len(state'.nodes) = Len(state.nodes) - Cardinality(last.added)
           /\ Len(state'.edges) = Len(state.edges) - Cardinality(last.added)

\* C2: collapse_node(id) on an expanded node removes exactly the transitive
\* descendants of id and exactly the edges that touch one, leaves id (now
\* unexpanded), its ancestors, the sibling subtrees and all other edges as they
\* were; an expand_node(id) directly followed by collapse_node(id) gives back the
\* node set and edge set from before the expand.
C2_Collapse == [][CollapseIsExact /\ ExpandThenCollapseRestores]_vars

\* A collapse that removed a grandchild while a sibling of the collapsed node
\* keeps its own children.
C2_Witness ==
    /\ last.op = "collapse_node" /\ last.outcome = "collapsed"
    /\ \E r \in 1..Len(last.removed) : last.removed[r].parent_id # Some(last.id)
    /\ \E n, sib \in Nodes(state) :
          /\ n.id = last.id /\ sib.id # n.id /\ sib.parent_id = n.parent_id
          /\ ChildrenOf(state, sib.id) # {}

ExpandNoOp ==
    (last'.op = "expand_node"
       /\ last'.outcome \in {"unknown", "file", "already_expanded"})
        => state' = state /\ last'.calls = <<>>

CollapseNoOp ==
    (last'.op = "collapse_node" /\ last'.outcome \in {"unknown", "not_expanded"})
        => state' = state

\* C3: expand_node(id) changes nothing and lists no directory when id is
\* unknown, a file or an already expanded directory; collapse_node(id) changes
\* nothing when id is unknown or not expanded.
C3_NoOps == [][ExpandNoOp /\ CollapseNoOp]_vars

\* expand_node was called on an expanded directory that has children.
C3_Witness ==
    /\ last.op = "expand_node" /\ last.outcome = "already_expanded"
    /\ ChildrenOf(state, last.id) # {}

\* C4: exactly one node has no parent, it is the first node; every other node
\* has exactly one incoming edge, and that edge comes from its parent_id; so
\* there is one edge less than there are nodes.
C4_Tree ==
    /\ Len(state.nodes) >= 1
    /\ state.nodes[1].parent_id = None
    /\ \A i \in 2..Len(state.nodes) : state.nodes[i].parent_id # None
    /\ \A i \in 2..Len(state.nodes) :
          LET n == state.nodes[i]
              incoming == {k \in 1..Len(state.edges) : state.edges[k].to = n.id}
          IN  /\ Cardinality(incoming) = 1
              /\ \A k \in incoming : Some(state.edges[k].from) = n.parent_id
    /\ \A k \in 1..Len(state.edges) : state.edges[k].to # state.nodes[1].id
    /\ Len(state.edges) = Len(state.nodes) - 1

\* A collapse removed a subtree and three levels of nodes are left.
C4_Witness ==
    /\ last.op = "collapse_node" /\ last.removed # <<>>
    /\ \E n, m \in Nodes(state) : m.parent_id = Some(n.id) /\ n.parent_id # None

Expanded(s) == {n.id : n \in {m \in Nodes(s) : m.is_expanded}}
Childless(s) == {n.id : n \in {m \in Nodes(s) : ChildrenOf(s, m.id) = {}}}

\* C5 as stated: a node is expanded if and only if it has a child in the store.
C5_Original ==
    \A n \in Nodes(state) : n.is_expanded <=> ChildrenOf(state, n.id) # {}

ParentsAreExpanded ==
    \A n \in Nodes(state) : ChildrenOf(state, n.id) # {} => n.is_expanded

ChildlessExpandedOnlyByEmptyListing ==
    \A id \in Expanded(state') \cap Childless(state') :
        \/ id \in Expanded(state) \cap Childless(state)
        \/ last'.op = "expand_node" /\ last'.id = id /\ last'.added = {}

\* C5, amended: a node that has a child in the store is expanded; an expanded
\* node is without children only from an expand_node whose listing gave no
\* entry (at construction or later) until it is collapsed.
C5_ExpandedFlag ==
    /\ [](ParentsAreExpanded)
    /\ [][ChildlessExpandedOnlyByEmptyListing]_vars

\* A directory below the root is expanded and has no children, next to an
\* expanded directory that has some.
C5_Witness ==
    /\ last.op = "expand_node" /\ last.outcome = "expanded" /\ last.added = {}
    /\ last.id # 0
    /\ \E n \in Nodes(state) : n.is_expanded /\ ChildrenOf(state, n.id) # {}

\* ----------------------------------------------------------- claims C6..C10

ZoomMin == Div(ZoomMinPerCent * ZQ, 100)
ZoomMax == Div(ZoomMaxPerCent * ZQ, 100)

ZoomInRange == ZoomMin <= state.zoom /\ state.zoom <= ZoomMax

ScrollMonotone ==
    /\ (last'.op = "scroll" /\ last'.outcome = "in") => state'.zoom >= state.zoom
    /\ (last'.op = "scroll" /\ last'.outcome = "out") => state'.zoom <= state.zoom
    /\ (last'.op = "scroll" /\ last'.outcome = "in" /\ state.zoom = ZQ)
          => state'.zoom * 10 = 11 * ZQ

\* C6: from zoom 1.0, whatever scroll events, timer ticks and pointer motion
\* come, zoom stays within [0.1, 5.0]; a zoom-in never lowers it, a zoom-out
\* never raises it, and one zoom-in from 1.0 gives 1.1.
C6_Zoom == [](ZoomInRange) /\ [][ScrollMonotone]_vars

\* A zoom-in has been stopped at the upper bound after timer and pointer ran.
C6_Witness ==
    /\ last.op = "scroll" /\ last.outcome = "in" /\ state.zoom = ZoomMax
    /\ ticks > 0 /\ state.hovered_node # None

Released == last.op = "drag_end" /\ last.seq = "released"

ReleasedWhereDragged ==
    Released =>
        LET node == FindNode(state.nodes, last.id)
            w == WorldAt(state, last.ptr[1], last.ptr[2])
        IN  /\ node # None
            /\ node[1].x = w[1] - last.grab[1]
            /\ node[1].y = w[2] - last.grab[2]
            /\ node[1].vx = 0 /\ node[1].vy = 0

HeldStill ==
    (last'.op = "tick" /\ state.dragged_node # None) =>
        LET before == FindNode(state.nodes, state.dragged_node[1])
            after == FindNode(state'.nodes, state.dragged_node[1])
        IN  before # None =>
              /\ after # None
              /\ after[1].x = before[1].x /\ after[1].y = before[1].y
              /\ after[1].vx = 0 /\ after[1].vy = 0

\* C7: after pointer-down on a node, one or more pointer moves and pointer-up,
\* with timer ticks but no other input in between, the node is at the world
\* point of the last pointer position minus the grab offset taken at
\* pointer-down, with velocity zero; a tick does not move a held node.
C7_DragFollowsPointer == [](ReleasedWhereDragged) /\ [][HeldStill]_vars

\* A node with a neighbour was dragged away from where it was grabbed, the
\* timer fired during the gesture, and the node was released.
C7_Witness ==
    /\ Released /\ last.stepped /\ Len(state.nodes) >= 2
    /\ last.ptr # last.from
    /\ start_point = None
    /\ \E n \in Nodes(state) : n.id = last.id /\ n.parent_id # None

ClickToggles ==
    (last'.op = "click" /\ last'.outcome \in {"expand", "collapse"}) =>
        LET before == FindNode(state.nodes, last'.id)
            after == FindNode(state'.nodes, last'.id)
        IN  /\ before # None /\ after # None /\ before[1].is_dir
            /\ after[1].is_expanded = ~before[1].is_expanded
            /\ last'.outcome = "collapse" =>
                  /\ before[1].is_expanded
                  /\ state' = CollapseResult(state, last'.id)
                  /\ last'.calls = <<>>
            /\ last'.outcome = "expand" =>
                  /\ ~before[1].is_expanded
                  /\ last'.calls = <<[fn |-> "list_directory", path |-> before[1].path]>>
                  /\ {n.id : n \in ChildrenOf(state', last'.id)} = last'.added
                  /\ NodeIds(state') = NodeIds(state) \cup last'.added

ClickMissChangesNothing ==
    (last'.op = "click" /\ last'.outcome = "miss") =>
        state' = state /\ last'.calls = <<>>

\* C8: a click that hits a directory node collapses it if it is expanded and
\* expands it otherwise, so each such click flips its expanded flag; a click
\* that hits no node changes nothing.
C8_ClickToggles == [][ClickToggles /\ ClickMissChangesNothing]_vars

\* A click collapsed a directory below the root that had children.
C8_Witness ==
    /\ last.op = "click" /\ last.outcome = "collapse"
    /\ last.id # 0 /\ last.removed # <<>>

ClickOpensFile ==
    (last'.op = "click" /\ last'.outcome \in {"open", "open_failed"}) =>
        LET node == FindNode(state.nodes, last'.id)
        IN  /\ node # None /\ ~node[1].is_dir
            /\ last'.calls = <<[fn |-> "open::that", path |-> node[1].path]>>
            /\ state' = state

\* C9: a click that hits a file node calls the opener once, with that node's
\* path, and leaves nodes, edges, next_id, camera and interaction state as
\* they were, whether the opener succeeds or fails.
C9_ClickOpens == [][ClickOpensFile]_vars

\* A click on a file node whose opener failed, after the timer moved the nodes.
C9_Witness ==
    /\ last.op = "click" /\ last.outcome = "open_failed"
    /\ Len(last.calls) = 1 /\ ticks > 0

Controller(s) ==
    <<s.dragged_node, s.drag_offset_x, s.drag_offset_y, s.is_panning,
      s.pan_start_x, s.pan_start_y, s.cam_start_x, s.cam_start_y>>

SecondDownIgnored ==
    (last'.op = "drag_begin" /\ Active(state)) => Controller(state') = Controller(state)

\* C10 as stated: a pointer-down that arrives while a node is dragged or the
\* camera is panned leaves dragged_node, the grab offset, is_panning, the pan
\* start and the camera start as they were.
C10_SecondDownIgnored == [][SecondDownIgnored]_vars

\* ---------------------------------------------------------- claims C11..C20

\* The indices of the nodes of s whose disc holds the world point w, rim
\* included.
Covering(s, w) ==
    {i \in 1..Len(s.nodes) :
        (w[1] - s.nodes[i].x) * (w[1] - s.nodes[i].x)
        + (w[2] - s.nodes[i].y) * (w[2] - s.nodes[i].y)
           <= s.nodes[i].radius * s.nodes[i].radius}

\* The node inserted last among those that hold w, if any.
TopHit(s, w) ==
    IF Covering(s, w) = {} THEN None
    ELSE Some(s.nodes[CHOOSE i \in Covering(s, w) : \A j \in Covering(s, w) : j <= i].id)

\* C11: node_at gives None for a point outside every node's disc, and
\* otherwise the id of the node inserted last among those whose disc, rim
\* included, holds the point; the hover callback stores that answer.
C11_NodeAt ==
    /\ \A pt \in HitPoints :
          LET w == WorldAt(state, pt[1] * Q, pt[2] * Q)
          IN  node_at(state, w[1], w[2]) = TopHit(state, w)
    /\ last.op = "motion" =>
          state.hovered_node = TopHit(state, WorldAt(state, last.ptr[1], last.ptr[2]))

\* The pointer is on the rim of the node inserted last, inside an older node,
\* and the hover is the newer one.
C11_Witness ==
    /\ last.op = "motion"
    /\ LET w == WorldAt(state, last.ptr[1], last.ptr[2])
       IN  /\ Cardinality(Covering(state, w)) >= 2
           /\ \E i \in Covering(state, w) :
                 /\ \A j \in Covering(state, w) : j <= i
                 /\ state.hovered_node = Some(state.nodes[i].id)
                 /\ (w[1] - state.nodes[i].x) * (w[1] - state.nodes[i].x)
                    + (w[2] - state.nodes[i].y) * (w[2] - state.nodes[i].y)
                       = state.nodes[i].radius * state.nodes[i].radius

\* Lines 284-308 for a node that no repulsion and no spring acts on: damping
\* of velocity plus the centering pull, the speed clamp, the move.
LoneStep(node) ==
    LET vx == Div((node.vx - Div(node.x * CenterPerMille, 1000)) * DampingPerCent, 100)
        vy == Div((node.vy - Div(node.y * CenterPerMille, 1000)) * DampingPerCent, 100)
        v == ClampSpeed(vx, vy)
    IN  [node EXCEPT !.vx = v[1], !.vy = v[2], !.x = node.x + v[1], !.y = node.y + v[2]]

LoneTick == last'.op = "tick" /\ Len(state.nodes) = 1

\* C12 as stated: the move of a lone node in one step is what the centering
\* term alone gives.
C12_Original ==
    [][LoneTick =>
         LET node == state.nodes[1]
             rest == LoneStep([node EXCEPT !.vx = 0, !.vy = 0])
         IN  /\ state'.nodes[1].x = (IF Held(state, node) THEN node.x ELSE rest.x)
             /\ state'.nodes[1].y = (IF Held(state, node) THEN node.y ELSE rest.y)]_vars

\* C12: physics_step leaves a state without nodes as it is; on a single node
\* the only force is the centering pull, so the node moves by its damped
\* velocity plus that pull (a held node stays), and nothing else changes.
C12_LoneNode ==
    /\ [](physics_step(new) = new)
    /\ [][LoneTick =>
            LET node == state.nodes[1]
            IN  state' = [state EXCEPT !.nodes[1] =
                            IF Held(state, node) THEN [node EXCEPT !.vx = 0, !.vy = 0]
                            ELSE LoneStep(node)]]_vars

\* A lone node away from the origin was moved by a step.
C12_Witness ==
    /\ last.op = "tick" /\ Len(state.nodes) = 1
    /\ state.dragged_node = None
    /\ state.nodes[1].vx # 0
    /\ state.nodes[1].x # state.nodes[1].vx

ExpandMetNothing ==
    last'.op = "expand_node" /\ last'.outcome = "expanded" /\ last'.read \in {"err", "empty"}

\* C13: when the listing made for an unexpanded directory node fails or is
\* empty, expand_node ends with the state it started from but for that node's
\* expanded flag, which is true: no node, no edge, no id.
C13_EmptyListing ==
    [][ExpandMetNothing =>
         LET p == Position(state.nodes, last'.id)
         IN  /\ p # 0 /\ state.nodes[p].is_dir /\ ~state.nodes[p].is_expanded
             /\ last'.calls = <<[fn |-> "list_directory", path |-> state.nodes[p].path]>>
             /\ last'.added = {}
             /\ state' = [state EXCEPT !.nodes[p].is_expanded = TRUE]]_vars

\* The listing of a directory below the root failed, and the one of another
\* expanded directory gave children.
C13_Witness ==
    /\ last.op = "expand_node" /\ last.read = "err" /\ last.id # 0
    /\ \E n \in Nodes(state) : n.id = last.id /\ n.is_expanded
    /\ Len(state.edges) >= 2

ExpandAdds ==
    (last'.op = "expand_node" /\ last'.outcome = "expanded") =>
        LET id == last'.id
            k == Len(last'.listed)
            p == Position(state.nodes, id)
            n0 == Len(state.nodes)
            e0 == Len(state.edges)
        IN  /\ Len(state'.nodes) = n0 + k /\ Len(state'.edges) = e0 + k
            /\ state'.next_id = state.next_id + k
            /\ \A i \in 1..n0 :
                  state'.nodes[i] = IF i = p THEN [state.nodes[i] EXCEPT !.is_expanded = TRUE]
                                    ELSE state.nodes[i]
            /\ \A i \in 1..e0 : state'.edges[i] = state.edges[i]
            /\ \A j \in 1..k :
                  LET c == state'.nodes[n0 + j]
                  IN  /\ c.id >= state.next_id /\ c.id \notin NodeIds(state)
                      /\ \A h \in 1..k : h # j => state'.nodes[n0 + h].id # c.id
                      /\ c.parent_id = Some(id) /\ ~c.is_expanded
                      /\ c.vx = 0 /\ c.vy = 0
                      /\ c.is_dir = last'.listed[j].is_dir
                      /\ c.path = last'.listed[j].path
                      /\ state'.edges[e0 + j] = [from |-> id, to |-> c.id]
                      /\ ChildrenOf(state', c.id) = {}
            /\ state' = [state EXCEPT !.nodes = state'.nodes, !.edges = state'.edges,
                                      !.next_id = state'.next_id]

\* C14: expand_node on a live, unexpanded directory whose listing returns k
\* entries appends k nodes and k edges: each node with a fresh id, the parent's
\* id as parent_id, not expanded, at rest, is_dir and path of its entry, each
\* edge from the parent to that node; the parent becomes expanded, every node
\* and edge that was there is otherwise as it was, and no node has the new
\* nodes as parent.
C14_ExpandAdds == [][ExpandAdds]_vars

\* A directory below the root was expanded over a listing of one directory and
\* one file, beside a hidden entry that is not listed.
C14_Witness ==
    /\ last.op = "expand_node" /\ last.outcome = "expanded" /\ last.id # 0
    /\ Len(last.listed) = 2 /\ Cardinality(last.added) = 2
    /\ last.listed[1].is_dir /\ ~last.listed[2].is_dir

\* What of a state the graph's structure is: per node its id, parent and
\* flag, the edges, and next_id.
Structure(s) ==
    [nodes |-> [i \in 1..Len(s.nodes) |->
                  <<s.nodes[i].id, s.nodes[i].parent_id, s.nodes[i].is_expanded>>],
     edges |-> s.edges,
     next_id |-> s.next_id]

KeepsStructure ==
    last'.op \in {"tick", "draw", "scroll", "motion", "drag_begin", "drag_update", "drag_end"}
        => Structure(state') = Structure(state)

ExpandOnlyAdds ==
    (last'.op = "click" /\ last'.outcome = "expand") =>
        /\ NodeIds(state) \subseteq NodeIds(state') /\ Edges(state) \subseteq Edges(state')
        /\ last'.removed = <<>>

CollapseOnlyRemoves ==
    (last'.op = "click" /\ last'.outcome = "collapse") =>
        /\ NodeIds(state') \subseteq NodeIds(state) /\ Edges(state') \subseteq Edges(state)
        /\ last'.added = {}

\* C15: the timer step, drawing, scroll, hover motion, pointer-down,
\* pointer-move and pointer-up leave every node's id, parent_id and expanded
\* flag, the edges and next_id as they were; an expand only adds nodes and
\* edges, a collapse only removes them.
C15_Frame == [][KeepsStructure /\ ExpandOnlyAdds /\ CollapseOnlyRemoves]_vars

\* The root, expanded for the second time and zoomed, was dragged over a
\* timer step and released.
C15_Witness ==
    /\ Released /\ last.stepped /\ last.id = 0
    /\ state.next_id > 2 /\ state.zoom # ZQ
    /\ Len(state.nodes) = 2

RootAlone(s) ==
    /\ Len(s.nodes) = 1 /\ s.edges = <<>>
    /\ s.nodes[1].id = 0 /\ s.nodes[1].parent_id = None
    /\ s.nodes[1].x = 0 /\ s.nodes[1].y = 0
    /\ ~s.nodes[1].is_expanded

AddsOnlyByUserExpand ==
    ~(NodeIds(state') \subseteq NodeIds(state))
        => (last'.op = "click" /\ last'.outcome = "expand")

IsFinite(node) ==
    /\ node.x # NonFinite /\ node.y # NonFinite
    /\ node.vx # NonFinite /\ node.vy # NonFinite

\* The speeds the clamp of a step on s divides by (lines 299-303): the speed
\* of every node that is integrated and exceeds max_speed.
SpeedDivisors(s) ==
    {Hypot(Div((s.nodes[i].vx + Force(s, i, 1)) * DampingPerCent, 100),
           Div((s.nodes[i].vy + Force(s, i, 2)) * DampingPerCent, 100)) :
        i \in {j \in 1..Len(s.nodes) :
                  /\ ~Held(s, s.nodes[j])
                  /\ state'.nodes[j].vx # Div((s.nodes[j].vx + Force(s, j, 1)) * DampingPerCent, 100)
                     \/ state'.nodes[j].vy # Div((s.nodes[j].vy + Force(s, j, 2)) * DampingPerCent, 100)}}

DivisorsFloored ==
    last'.op = "tick" =>
        /\ \A i \in 1..Len(state.nodes) : \A d \in DistDivisors(state, i) : d >= 1 * Q
        /\ \A sp \in SpeedDivisors(state) : sp > MaxSpeed * Q

\* C17: no step divides by zero and every position and velocity stays
\* finite, also when two nodes, or the two ends of an edge, are at the same
\* point: each distance a step divides by is at least 1, and the speed the
\* clamp divides by is above max_speed.
C17_Finite == [](\A n \in Nodes(state) : IsFinite(n)) /\ [][DivisorsFloored]_vars

\* A step ran with the child exactly on its parent, neither of them held.
C17_Witness ==
    /\ last.op = "tick" /\ state.dragged_node = None
    /\ \E e \in Edges(state) : \E a, b \in Nodes(state) :
          a.id = e.from /\ b.id = e.to /\ a.x = b.x /\ a.y = b.y

\* The force on node i of s summed node by node and edge by edge, each other
\* node -- a held one too -- repelling it and each edge it ends pulling it.
RefForce(s, i) ==
    LET me == s.nodes[i]
        rep == [j \in (1..Len(s.nodes)) \ {i} |-> RepulsionOn(me, s.nodes[j])]
        out == {k \in 1..Len(s.edges) : s.edges[k].from = me.id /\ FindNode(s.nodes, s.edges[k].to) # None}
        in == {k \in 1..Len(s.edges) : s.edges[k].to = me.id /\ FindNode(s.nodes, s.edges[k].from) # None}
        pullOut == [k \in out |-> SpringOn(me, FindNode(s.nodes, s.edges[k].to)[1])]
        pullIn == [k \in in |-> SpringOn(FindNode(s.nodes, s.edges[k].from)[1], me)]
    IN  << SumOver(DOMAIN rep, rep, 1) + SumOver(out, pullOut, 1) - SumOver(in, pullIn, 1)
              - Div(me.x * CenterPerMille, 1000),
           SumOver(DOMAIN rep, rep, 2) + SumOver(out, pullOut, 2) - SumOver(in, pullIn, 2)
              - Div(me.y * CenterPerMille, 1000) >>

\* velocity = (velocity + force) * damping, then the clamp to max_speed, then
\* position += velocity.
RefStep(node, f) ==
    LET vx == Div((node.vx + f[1]) * DampingPerCent, 100)
        vy == Div((node.vy + f[2]) * DampingPerCent, 100)
        speed == Hypot(vx, vy)
        cx == IF speed > MaxSpeed * Q THEN Div(Div(vx * RQ, speed) * (MaxSpeed * Q), RQ) ELSE vx
        cy == IF speed > MaxSpeed * Q THEN Div(Div(vy * RQ, speed) * (MaxSpeed * Q), RQ) ELSE vy
    IN  [node EXCEPT !.vx = cx, !.vy = cy, !.x = node.x + cx, !.y = node.y + cy]

HeldTick ==
    /\ last'.op = "tick" /\ state.dragged_node # None
    /\ Position(state.nodes, state.dragged_node[1]) # 0

\* C18: while a node is held, a step leaves it where it is with velocity zero,
\* and gives every other node velocity = (velocity + force) * damping, clamped,
\* and position += velocity, the force counting the held node like any other.
C18_HeldNode ==
    [][HeldTick =>
         /\ Len(state'.nodes) = Len(state.nodes)
         /\ \A i \in 1..Len(state.nodes) :
               state'.nodes[i] =
                  IF state.nodes[i].id = state.dragged_node[1]
                  THEN [state.nodes[i] EXCEPT !.vx = 0, !.vy = 0]
                  ELSE RefStep(state.nodes[i], RefForce(state, i))]_vars

\* A step ran while the child was held five units from the root: the child
\* is where the drag put it, the root was pushed away at max_speed.
C18_Witness ==
    /\ last.op = "tick" /\ state.dragged_node = Some(1)
    /\ \E n \in Nodes(state) : n.id = 1 /\ n.vx = 0 /\ n.vy = 0 /\ n.x = 5 * Q
    /\ \E r \in Nodes(state) : r.id = 0 /\ Hypot(r.vx, r.vy) = MaxSpeed * Q

DownFromIdle == last'.op = "drag_begin" /\ ~Active(state) /\ start_point' # None

DownOnNode ==
    LET p == start_point'[1]
        w == WorldAt(state, p[1], p[2])
        hit == TopHit(state, w)
    IN  (DownFromIdle /\ hit # None) =>
           LET n == FindNode(state.nodes, hit[1])[1]
           IN  /\ state' = [state EXCEPT !.dragged_node = hit,
                                         !.drag_offset_x = w[1] - n.x,
                                         !.drag_offset_y = w[2] - n.y]
               /\ ~state'.is_panning /\ last'.id = hit[1]

DownOnEmpty ==
    LET p == start_point'[1]
        w == WorldAt(state, p[1], p[2])
    IN  (DownFromIdle /\ TopHit(state, w) = None) =>
           /\ state' = [state EXCEPT !.is_panning = TRUE,
                                     !.pan_start_x = p[1], !.pan_start_y = p[2],
                                     !.cam_start_x = state.cam_x,
                                     !.cam_start_y = state.cam_y]
           /\ state'.dragged_node = None

ZeroMoveKeepsNode ==
    (/\ last.op = "drag_begin" /\ last.outcome = "from_idle" /\ last.id # -1
     /\ last'.op = "drag_update" /\ last'.ptr = last.from) =>
        /\ Len(state'.nodes) = Len(state.nodes)
        /\ \A i \in 1..Len(state.nodes) :
              /\ state'.nodes[i].x = state.nodes[i].x
              /\ state'.nodes[i].y = state.nodes[i].y
        /\ state'.dragged_node = Some(last.id)

PointerUp ==
    last'.op = "drag_end" =>
        /\ state'.dragged_node = None /\ ~state'.is_panning
        /\ state'.nodes = state.nodes /\ state'.edges = state.edges
        /\ state'.next_id = state.next_id
        /\ state'.cam_x = state.cam_x /\ state'.cam_y = state.cam_y
        /\ state'.zoom = state.zoom

IdleUntilDown == (~Active(state) /\ last'.op # "drag_begin") => ~Active(state')

IdleMoveMovesNothing ==
    (~Active(state) /\ last'.op \in {"drag_update", "motion"}) =>
        /\ state'.nodes = state.nodes
        /\ state'.cam_x = state.cam_x /\ state'.cam_y = state.cam_y

\* C20: a pointer-up, whatever the controller state, leaves dragged_node None
\* and is_panning false and changes no node, no edge, no camera value; from
\* then on the controller stays idle until a pointer-down, and while it is
\* idle a pointer-move moves no node and no camera value.
C20_PointerUp == [][PointerUp /\ IdleUntilDown /\ IdleMoveMovesNothing]_vars

\* A pan moved the camera, the pointer went up, and a pointer-move came after.
C20_Witness ==
    /\ last.op = "drag_update" /\ start_point = None /\ ~Active(state)
    /\ gestures >= 1 /\ state.cam_x # 0

\* -------------------------------------------------------- claims C21..C30

Panning(s) == s.is_panning /\ s.dragged_node = None

PanMove ==
    (last'.op = "drag_update" /\ Panning(state)) =>
        /\ state' = [state EXCEPT
                        !.cam_x = state.cam_start_x - Div(last'.delta[1] * ZQ, state.zoom),
                        !.cam_y = state.cam_start_y - Div(last'.delta[2] * ZQ, state.zoom)]
        /\ state'.nodes = state.nodes
        /\ (last'.delta = <<0, 0>> =>
               state'.cam_x = state.cam_start_x /\ state'.cam_y = state.cam_start_y)

\* C21: during a pan, a pointer-move by (dx, dy) from the pointer-down sets the
\* camera to the camera start minus (dx, dy) over the zoom of that moment and
\* changes nothing else, no node's position or velocity in particular; a move
\* by (0, 0) puts the camera back at the camera start.
C21_PanMove == [][PanMove]_vars

\* A pan was moved away, the wheel zoomed in, the timer fired, and a move by
\* zero put the camera back.
C21_Witness ==
    /\ last.op = "drag_update" /\ Panning(state) /\ last.delta = <<0, 0>>
    /\ state.zoom # ZQ /\ ticks >= 1
    /\ state.cam_x = state.cam_start_x

\* C22: a scroll event, whatever the controller state, changes the zoom and
\* nothing else: dragged_node, the grab offset, is_panning, the pan start, the
\* camera start, the camera, hovered_node, the nodes and the edges stay.
C22_ScrollOnlyZooms ==
    [][last'.op = "scroll" => state' = [state EXCEPT !.zoom = state'.zoom]]_vars

\* The wheel turned while a node was held, away from where it started, and
\* a node was hovered over.
C22_Witness ==
    /\ last.op = "scroll" /\ state.zoom # ZQ
    /\ state.dragged_node # None /\ state.hovered_node # None
    /\ state.nodes[1].x # 0

\* The wheel turned during a pan that had moved the camera, a node hovered over.
C22_WitnessPan ==
    /\ last.op = "scroll" /\ Panning(state) /\ state.hovered_node # None
    /\ state.cam_x # state.cam_start_x

SpeedSquared(node) == node.vx * node.vx + node.vy * node.vy

C24_DragReleaseInert ==
    [][(/\ last.op = "drag_end" /\ last.seq = "released" /\ last.ptr # last.from
        /\ last'.op = "click")
       => (state' = state /\ last'.calls = <<>>)]_vars

ExpandedChildless(s, id) ==
    /\ FindNode(s.nodes, id) # None
    /\ FindNode(s.nodes, id)[1].is_dir /\ FindNode(s.nodes, id)[1].is_expanded
    /\ ChildrenOf(s, id) = {}

Queried(calls) == \E i \in 1..Len(calls) : calls[i].fn = "list_directory"

\* The claim as stated, for the root whose listing at construction gave no
\* child (it failed or was empty; no id but the root's was issued): no click
\* on the root queries the listing again.
C25_Original ==
    [][(last'.op = "click" /\ last'.id = 0 /\ state.next_id = 1)
       => ~Queried(last'.calls)]_vars

\* A click on a directory that is expanded and has no child queries nothing
\* and clears the flag ...
ClickOnExpandedChildless ==
    (last'.op = "click" /\ last'.id # -1 /\ ExpandedChildless(state, last'.id)) =>
        /\ ~Queried(last'.calls)
        /\ state' = [state EXCEPT !.nodes = SetExpanded(state.nodes, last'.id, FALSE)]
        /\ ~FindNode(state'.nodes, last'.id)[1].is_expanded

\* ... and the click on the same node that follows it lists the directory again.
ClickAfterwardsRetries ==
    (/\ last.op = "click" /\ last.outcome = "collapse" /\ last.removed = <<>>
     /\ last'.op = "click" /\ last'.id = last.id) =>
        /\ last'.outcome = "expand"
        /\ last'.calls = <<[fn |-> "list_directory",
                            path |-> FindNode(state.nodes, last.id)[1].path]>>
        /\ last'.added = {state.next_id + k - 1 : k \in 1..Len(last'.listed)}

\* C25: a directory node marked expanded with no child (its listing failed or
\* was empty) is kept from a retry for one click only: that click queries
\* nothing and clears the flag, and the next click on the node queries the
\* listing again and adds a child for each entry it now returns.
C25_RetryAfterCollapse == [][ClickOnExpandedChildless /\ ClickAfterwardsRetries]_vars

\* The root's listing gave no child at construction; a later click on the
\* root listed it again and added the first child ever.
C25_Witness ==
    /\ last.op = "click" /\ last.id = 0 /\ last.outcome = "expand"
    /\ last.read = "entries" /\ 1 \in last.added

\* C26: in every reachable state the controller is in one of Idle,
\* PanningCamera and DraggingNode: is_panning and a held node never go together.
C26_OneMode == ~(state.is_panning /\ state.dragged_node # None)

Stale(s) == s.dragged_node # None /\ FindNode(s.nodes, s.dragged_node[1]) = None

\* The claim as stated: dragged_node is None or the id of a node in the store.
C27_Original == ~Stale(state)

DraggedWasIssued ==
    state.dragged_node # None =>
        state.dragged_node[1] \in 0..(state.next_id - 1)

StaleIsIgnored ==
    Stale(state) =>
        /\ last'.op = "drag_update" => state' = state
        /\ last'.op = "tick" =>
              state'.nodes = physics_step([state EXCEPT !.dragged_node = None]).nodes
        /\ last'.op = "drag_end" => state'.dragged_node = None

\* C27: in every reachable state dragged_node is None or an id the store has
\* issued, of a node that is in the store or that a collapse has removed since
\* the pointer-down; while it names a removed node a pointer-move changes
\* nothing, a step holds no node, and the pointer-up clears it.
C27_DraggedIssued == [][DraggedWasIssued /\ DraggedWasIssued' /\ StaleIsIgnored]_vars

\* A click on the root collapsed it while its child was held, a pointer-down
\* on empty space began a pan, and a pointer-move came.
C27_Witness ==
    /\ Stale(state) /\ last.op = "drag_update" /\ state.is_panning
    /\ state.cam_x = state.cam_start_x

StaleHover(s) == s.hovered_node # None /\ FindNode(s.nodes, s.hovered_node[1]) = None

\* The claim as stated: hovered_node is None or the id of a node in the store.
C28_Original == ~StaleHover(state)

HoveredWasIssued ==
    state.hovered_node # None => state.hovered_node[1] \in 0..(state.next_id - 1)

MotionRefreshesHover ==
    last'.op = "motion" =>
        /\ ~StaleHover(state')
        /\ state'.hovered_node =
              TopHit(state, WorldAt(state, last'.ptr[1], last'.ptr[2]))

OnlyMotionSetsHover == last'.op # "motion" => state'.hovered_node = state.hovered_node

\* C28: in every reachable state hovered_node is None or an id the store has
\* issued; a collapse leaves it as it is, also when it removes the node named,
\* until the next pointer motion sets it to the node then under the pointer,
\* or to None; while it names a removed node, no node is drawn as hovered.
C28_HoveredIssued ==
    [][/\ HoveredWasIssued /\ HoveredWasIssued'
       /\ MotionRefreshesHover /\ OnlyMotionSetsHover
       /\ (StaleHover(state) => HoveredDrawn(state) = {})]_vars

\* The child was hovered over, a click on the root removed it, and the graph
\* was drawn with hovered_node still naming it.
C28_Witness == StaleHover(state) /\ last.op = "draw" /\ HoveredDrawn(state) = {}

RECURSIVE ClimbsToRoot(_, _, _)
\* Whether parent_id links lead from node n to the parentless node in at most
\* fuel steps.
ClimbsToRoot(s, n, fuel) ==
    IF n.parent_id = None THEN TRUE
    ELSE IF fuel = 0 THEN FALSE
    ELSE LET up == {p \in Nodes(s) : Some(p.id) = n.parent_id}
         IN  up # {} /\ \A p \in up : ClimbsToRoot(s, p, fuel - 1)

\* C29: every node with a parent_id has as parent a node of the store that is
\* a directory and expanded; parent_id links lead from every node to the one
\* parentless node, the root; a file node is not expanded and has no child.
C29_ParentsExpanded ==
    /\ \A n \in Nodes(state) :
          n.parent_id # None =>
              \E p \in Nodes(state) :
                  Some(p.id) = n.parent_id /\ p.is_dir /\ p.is_expanded
    /\ Cardinality({n \in Nodes(state) : n.parent_id = None}) = 1
    /\ \A n \in Nodes(state) : ClimbsToRoot(state, n, Len(state.nodes) - 1)
    /\ \A n \in Nodes(state) :
          ~n.is_dir => ~n.is_expanded /\ ChildrenOf(state, n.id) = {}

\* A collapse took a subtree out of a tree that keeps three levels and a file.
C29_Witness ==
    /\ last.op = "collapse_node" /\ last.removed # <<>>
    /\ \E n, m, f \in Nodes(state) :
          /\ m.parent_id = Some(n.id) /\ n.parent_id # None
          /\ ~f.is_dir /\ ~ClimbsToRoot(state, m, 1)

RECURSIVE IsAncestor(_, _, _, _)
\* Whether node a is reached from node n by one to fuel parent_id links.
IsAncestor(s, a, n, fuel) ==
    /\ fuel > 0 /\ n.parent_id # None
    /\ \/ n.parent_id = Some(a.id)
       \/ \E p \in Nodes(s) : Some(p.id) = n.parent_id /\ IsAncestor(s, a, p, fuel - 1)

\* The positions <<i, j>> of a node and of one of its ancestors whose discs
\* both hold the world point w.
CoveringKin(s, w) ==
    {ij \in Covering(s, w) \X Covering(s, w) :
        IsAncestor(s, s.nodes[ij[2]], s.nodes[ij[1]], Len(s.nodes))}

\* The claim as stated: where a point lies inside a node and one of its
\* ancestors, node_at gives that node.
C30_Original ==
    \A pt \in UiPoints :
        LET w == WorldAt(state, pt[1] * Q, pt[2] * Q)
        IN  \A ij \in CoveringKin(state, w) :
                node_at(state, w[1], w[2]) = Some(state.nodes[ij[1]].id)

IdsIncrease ==
    \A i, j \in 1..Len(state.nodes) : i < j => state.nodes[i].id < state.nodes[j].id

AncestorsFirst ==
    \A i, j \in 1..Len(state.nodes) :
        IsAncestor(state, state.nodes[j], state.nodes[i], Len(state.nodes)) => j < i

\* Where a point lies inside a node and one of its ancestors, node_at gives
\* the node, or one that comes after it and holds the point too.
LaterKinOnTop ==
    \A pt \in UiPoints :
        LET w == WorldAt(state, pt[1] * Q, pt[2] * Q)
            hit == node_at(state, w[1], w[2])
        IN  \A ij \in CoveringKin(state, w) :
                /\ hit # None /\ hit # Some(state.nodes[ij[2]].id)
                /\ Position(state.nodes, hit[1]) \in Covering(state, w)
                /\ Position(state.nodes, hit[1]) >= ij[1]
                /\ ({k \in Covering(state, w) : k > ij[1]} = {}
                      => hit = Some(state.nodes[ij[1]].id))

\* C30: in every reachable state the node sequence is strictly increasing in
\* id, so every node comes after its parent and its ancestors; where a point
\* lies inside a node and one of its ancestors, node_at gives that node or a
\* node inserted after it that holds the point too, never the ancestor.
C30_InsertionOrder == IdsIncrease /\ AncestorsFirst /\ LaterKinOnTop

\* After a collapse and a new expansion, both children lie on the root: the
\* centre is inside all three and node_at gives the child inserted last.
C30_Witness ==
    LET w == WorldAt(state, Centre[1] * Q, Centre[2] * Q)
    IN  /\ Cardinality(Covering(state, w)) >= 3
        /\ state.next_id > Len(state.nodes)
        /\ node_at(state, w[1], w[2]) = Some(state.nodes[Len(state.nodes)].id)

====
